---- MODULE Spec2Model ----
(***************************************************************************)
(* The package signer of tizen.js (Signature, src/unnamed/part_000) and    *)
(* the parts of the Exc-C14N canonicalizer (src/src/xml-c14n.js) it calls. *)
(*                                                                         *)
(* Strings.  A JavaScript string is a sequence of tokens.  A token is      *)
(* either a literal run of ordinary characters, [ch |-> "..."], or a       *)
(* substring of the text of an opaque value, [of |-> v, from |-> i,        *)
(* to |-> j] (characters i..j of the Base64 text of a digest, of a         *)
(* signature, of a certificate).  Concatenation is \o.  XML text is kept   *)
(* as a sequence of markup items (elements and character data) in the      *)
(* order the code's templates write them; DOMParser turns the items into   *)
(* DOM nodes, and the canonicalizer turns DOM nodes into a string again.   *)
(***************************************************************************)
EXTENDS Integers, Sequences, FiniteSets, TLC

\* ------------------------------------------------------------------ bounds

\* Longest file list handed to a Signature.
MaxFiles == 2

\* Sign calls made in one behaviour.
MaxCalls == 2

\* --------------------------------------------------------------- strings

S(s) == <<[ch |-> s]>>

NL == [ch |-> "\n"]

Sub(v, i, j) == [of |-> v, from |-> i, to |-> j]

\* The opaque values whose text the code embeds.
Sha512(bytes) == [fn |-> "sha512", key |-> "", msg |-> bytes]

RsaSha512(pem, msg) == [fn |-> "rsa-sha512", key |-> pem, msg |-> msg]

Utf8(bytes) == [fn |-> "utf8", key |-> "", msg |-> bytes]

CertDer(c) == [fn |-> "x509-der", key |-> c, msg |-> << >>]

\* Length in characters of Base64 over n octets.
Base64Len(n) == ((n + 2) \div 3) * 4

\* replace(/(.{76})/g, '$1\n') on the text of v, from character i to n: a
\* line feed follows every full run of 76 characters.
WrapWidth == 76

RECURSIVE WrapFrom(_, _, _)
WrapFrom(v, i, n) ==
    IF n - i + 1 >= WrapWidth
    THEN <<Sub(v, i, i + WrapWidth - 1), NL>> \o WrapFrom(v, i + WrapWidth, n)
    ELSE IF i <= n THEN <<Sub(v, i, n)>> ELSE << >>

\* A string that is the whole text of one value: [val, len].
Wrap76(str) == WrapFrom(str.val, 1, str.len)

\* These digests don't change.
authorPropDigest ==
    "aXbSAVgmAz0GsBUeZ1UmNDRrxkWhDUVGb45dZcNRq429wX3X+x6kaXT3NdNDTSNVTU+ypkysPMGvQY10fG1EWQ=="

distributorPropDigest ==
    "/r5npk2VVA46QFJnejgONBEh4BWtjrtu9x/IFeLksjWyGmB/cMWKSJWQl7aU3YRQRZ3AesG8gF7qGyvKX9Snig=="

\* Number of characters of a string.
LitLen(c) ==
    CASE c = "hello" -> 5
      [] c \in {authorPropDigest, distributorPropDigest} -> Base64Len(512 \div 8)
      [] OTHER -> 1

RECURSIVE StrLen(_)
StrLen(str) ==
    IF str = << >> THEN 0
    ELSE (IF "of" \in DOMAIN Head(str) THEN Head(str).to - Head(str).from + 1
          ELSE LitLen(Head(str).ch)) + StrLen(Tail(str))

\* ------------------------------------------------------------- XML text

\* Markup items of XML text: an element with its attributes and content,
\* and a run of character data.  Names are strings; no prefix is << >>.
El(prefix, local, attrs, body) ==
    [kind |-> "el", prefix |-> prefix, local |-> local, attrs |-> attrs,
     body |-> body]

Txt(tokens) == [kind |-> "text", data |-> tokens]

Comment(tokens) == [kind |-> "comment", data |-> tokens]

Attr(prefix, local, value) == [prefix |-> prefix, local |-> local, value |-> value]

NoPrefix == << >>

\* ------------------------------------------------------------ DOMParser

IsCh(t, c) == "ch" \in DOMAIN t /\ t.ch = c

XmlnsNamespace == S("http://www.w3.org/2000/xmlns/")

XmlNamespace == S("http://www.w3.org/XML/1998/namespace")

IsDefaultNsDecl(a) == a.prefix = NoPrefix /\ a.local = S("xmlns")

IsPrefixNsDecl(a) == a.prefix = S("xmlns")

\* The namespace bound to prefix p by the innermost declaration, << >> if none.
RECURSIVE Lookup(_, _)
Lookup(map, p) ==
    IF map = << >> THEN << >>
    ELSE IF map[Len(map)].prefix = p THEN map[Len(map)].uri
    ELSE Lookup(SubSeq(map, 1, Len(map) - 1), p)

\* The namespace scope inside an element: the enclosing one and the
\* element's own xmlns and xmlns:p attributes.
RECURSIVE ScopeWith(_, _)
ScopeWith(attrs, scope) ==
    IF attrs = << >> THEN scope
    ELSE LET a == Head(attrs)
             s1 == IF IsDefaultNsDecl(a) THEN [scope EXCEPT !.dflt = a.value]
                   ELSE IF IsPrefixNsDecl(a)
                        THEN [scope EXCEPT !.map = Append(@, [prefix |-> a.local, uri |-> a.value])]
                        ELSE scope
         IN  ScopeWith(Tail(attrs), s1)

\* The character a reference of the text stands for.
DecodeReference(t) ==
    IF IsCh(t, "&amp;") THEN [ch |-> "&"]
    ELSE IF IsCh(t, "&lt;") THEN [ch |-> "<"]
    ELSE IF IsCh(t, "&gt;") THEN [ch |-> ">"]
    ELSE IF IsCh(t, "&quot;") THEN [ch |-> "\""]
    ELSE IF IsCh(t, "&#xD;") THEN [ch |-> "\r"]
    ELSE IF IsCh(t, "&#xA;") THEN NL
    ELSE IF IsCh(t, "&#x9;") THEN [ch |-> "\t"]
    ELSE t

DecodeReferences(str) == [k \in 1..Len(str) |-> DecodeReference(str[k])]

DomAttr(a, scope) ==
    [prefix |-> a.prefix, localName |-> a.local, value |-> DecodeReferences(a.value),
     namespaceURI |-> IF IsDefaultNsDecl(a) \/ IsPrefixNsDecl(a) THEN XmlnsNamespace
                      ELSE IF a.prefix = S("xml") THEN XmlNamespace
                      ELSE IF a.prefix = NoPrefix THEN << >>
                      ELSE Lookup(scope.map, a.prefix)]

\* Adjacent runs of character data make one text node; an empty run makes none.
RECURSIVE MergeText(_)
MergeText(items) ==
    IF items = << >> THEN << >>
    ELSE IF items[1].kind = "text" /\ items[1].data = << >> THEN MergeText(Tail(items))
    ELSE IF Len(items) < 2 THEN items
    ELSE IF items[1].kind = "text" /\ items[2].kind = "text"
         THEN MergeText(<<Txt(items[1].data \o items[2].data)>> \o SubSeq(items, 3, Len(items)))
         ELSE <<items[1]>> \o MergeText(Tail(items))

RECURSIVE ParseNode(_, _)
ParseNode(item, scope) ==
    IF item.kind = "text" THEN [nodeType |-> 3, data |-> DecodeReferences(item.data)]
    ELSE IF item.kind = "comment" THEN [nodeType |-> 8, data |-> item.data]
    ELSE LET inner == ScopeWith(item.attrs, scope)
             kids == MergeText(item.body)
         IN  [nodeType |-> 1,
              prefix |-> item.prefix,
              localName |-> item.local,
              namespaceURI |-> IF item.prefix = NoPrefix THEN inner.dflt
                               ELSE Lookup(inner.map, item.prefix),
              attributes |-> [i \in 1..Len(item.attrs) |-> DomAttr(item.attrs[i], inner)],
              childNodes |-> [i \in 1..Len(kids) |-> ParseNode(kids[i], inner)]]

\* new DOMParser().parseFromString(text, 'text/xml').documentElement, for a
\* text that is one element.
ParseDocumentElement(root) == ParseNode(root, [dflt |-> << >>, map |-> << >>])

\* ------------------------------------------------------- canonicalizer

\* Strings are compared token by token; the tokens of compared strings are
\* cut alike.  The literal tokens in use, in ascending UTF-16 order.
CodeUnitOrder ==
    <<"#prop", "Algorithm", "Id", "Target", "URI", "a", "b", "c", "ds", "dsp",
      "http://www.w3.org/2000/09/xmldsig#", "http://www.w3.org/2000/xmlns/",
      "http://www.w3.org/2009/xmldsig-properties",
      "http://www.w3.org/XML/1998/namespace", "null", "p", "q", "u:", "v", "xml", "xmlns">>

CodeUnitRank(t) == CHOOSE i \in DOMAIN CodeUnitOrder : CodeUnitOrder[i] = t.ch

\* -1, 0 or 1: x before, equal to or after y.
RECURSIVE StrCompare(_, _)
StrCompare(x, y) ==
    IF x = << >> /\ y = << >> THEN 0
    ELSE IF x = << >> THEN -1
    ELSE IF y = << >> THEN 1
    ELSE IF Head(x) = Head(y) THEN StrCompare(Tail(x), Tail(y))
    ELSE IF CodeUnitRank(Head(x)) < CodeUnitRank(Head(y)) THEN -1 ELSE 1

\* a.namespaceURI + a.localName; a null namespaceURI concatenates as "null".
NsPlusLocal(a) ==
    (IF a.namespaceURI = << >> THEN S("null") ELSE a.namespaceURI) \o a.localName

attrCompare(a, b) ==
    IF a.namespaceURI = << >> /\ b.namespaceURI # << >> THEN -1
    ELSE IF b.namespaceURI = << >> /\ a.namespaceURI # << >> THEN 1
    ELSE StrCompare(NsPlusLocal(a), NsPlusLocal(b))

\* localeCompare agrees with the UTF-16 order on the prefixes in use (lower
\* case ASCII letters).
nsCompare(a, b) ==
    IF a.prefix = b.prefix THEN 0 ELSE StrCompare(a.prefix, b.prefix)

\* Array.prototype.sort with a comparator is stable: attrListToRender.sort(
\* this.attrCompare) and nsListToRender.sort(this.nsCompare).
RECURSIVE InsertAttr(_, _)
InsertAttr(x, sorted) ==
    IF sorted = << >> THEN <<x>>
    ELSE IF attrCompare(x, Head(sorted)) < 0 THEN <<x>> \o sorted
    ELSE <<Head(sorted)>> \o InsertAttr(x, Tail(sorted))

RECURSIVE SortAttrs(_)
SortAttrs(seq) ==
    IF seq = << >> THEN << >>
    ELSE InsertAttr(seq[Len(seq)], SortAttrs(SubSeq(seq, 1, Len(seq) - 1)))

RECURSIVE InsertNs(_, _)
InsertNs(x, sorted) ==
    IF sorted = << >> THEN <<x>>
    ELSE IF nsCompare(x, Head(sorted)) < 0 THEN <<x>> \o sorted
    ELSE <<Head(sorted)>> \o InsertNs(x, Tail(sorted))

RECURSIVE SortNs(_)
SortNs(seq) ==
    IF seq = << >> THEN << >>
    ELSE InsertNs(seq[Len(seq)], SortNs(SubSeq(seq, 1, Len(seq) - 1)))

\* replace(/[\r\n\t ]+/g, ' ')
IsAttrSpace(t) == IsCh(t, "\r") \/ IsCh(t, "\n") \/ IsCh(t, "\t") \/ IsCh(t, " ")

RECURSIVE CollapseSpace(_)
CollapseSpace(v) ==
    IF v = << >> THEN << >>
    ELSE IF IsAttrSpace(Head(v))
         THEN IF Len(v) > 1 /\ IsAttrSpace(v[2]) THEN CollapseSpace(Tail(v))
              ELSE S(" ") \o CollapseSpace(Tail(v))
         ELSE <<Head(v)>> \o CollapseSpace(Tail(v))

xmlSpecialToEncodedAttribute(t) ==
    IF IsCh(t, "&") THEN [ch |-> "&amp;"]
    ELSE IF IsCh(t, "<") THEN [ch |-> "&lt;"]
    ELSE IF IsCh(t, "\"") THEN [ch |-> "&quot;"]
    ELSE IF IsCh(t, "\r") THEN [ch |-> "&#xD;"]
    ELSE IF IsCh(t, "\n") THEN [ch |-> "&#xA;"]
    ELSE IF IsCh(t, "\t") THEN [ch |-> "&#x9;"]
    ELSE t

encodeSpecialCharactersInAttribute(attributeValue) ==
    LET v == CollapseSpace(attributeValue)
    IN  [i \in 1..Len(v) |-> xmlSpecialToEncodedAttribute(v[i])]

\* replace(/\r\n?/g, '\n')
RECURSIVE NormalizeLineEnds(_)
NormalizeLineEnds(text) ==
    IF text = << >> THEN << >>
    ELSE IF IsCh(Head(text), "\r")
         THEN IF Len(text) > 1 /\ IsCh(text[2], "\n")
              THEN <<NL>> \o NormalizeLineEnds(SubSeq(text, 3, Len(text)))
              ELSE <<NL>> \o NormalizeLineEnds(Tail(text))
         ELSE <<Head(text)>> \o NormalizeLineEnds(Tail(text))

\* The character U+00E9 (e with acute accent), the one character in use
\* that is outside 7-bit ASCII.
EAcute == [ch |-> "U+00E9"]

\* The table of text specials with a character reference for U+00E9 added.
xmlSpecialToEncodedText_Escaping(t) ==
    IF IsCh(t, "&") THEN [ch |-> "&amp;"]
    ELSE IF IsCh(t, "<") THEN [ch |-> "&lt;"]
    ELSE IF IsCh(t, ">") THEN [ch |-> "&gt;"]
    ELSE IF IsCh(t, "\r") THEN [ch |-> "&#xD;"]
    ELSE IF t = EAcute THEN [ch |-> "&#xE9;"]
    ELSE t

xmlSpecialToEncodedText(t) ==
    IF IsCh(t, "&") THEN [ch |-> "&amp;"]
    ELSE IF IsCh(t, "<") THEN [ch |-> "&lt;"]
    ELSE IF IsCh(t, ">") THEN [ch |-> "&gt;"]
    ELSE IF IsCh(t, "\r") THEN [ch |-> "&#xD;"]
    ELSE t

encodeSpecialCharactersInText(text) ==
    LET v == NormalizeLineEnds(text)
    IN  [i \in 1..Len(v) |-> xmlSpecialToEncodedText(v[i])]

QName(prefix, local) ==
    IF prefix = NoPrefix THEN local ELSE prefix \o S(":") \o local

\* attr.name.indexOf("xmlns") === 0; a leading "xmlns" is a token of its own.
NameStartsWithXmlns(a) ==
    LET name == QName(a.prefix, a.localName)
    IN  name # << >> /\ IsCh(name[1], "xmlns")

RECURSIVE Concat(_)
Concat(strs) == IF strs = << >> THEN << >> ELSE Head(strs) \o Concat(Tail(strs))

renderAttrs(node) ==
    LET Rendered(a) == ~NameStartsWithXmlns(a)
        attrListToRender == SortAttrs(SelectSeq(node.attributes, Rendered))
    IN  Concat([i \in 1..Len(attrListToRender) |->
                  S(" ") \o QName(attrListToRender[i].prefix, attrListToRender[i].localName)
                  \o S("=\"")
                  \o encodeSpecialCharactersInAttribute(attrListToRender[i].value)
                  \o S("\"")])

InScope(prefixesInScope, p) == \E i \in DOMAIN prefixesInScope : prefixesInScope[i] = p

\* The loop of renderNs over the attributes: acc holds nsListToRender and
\* prefixesInScope, both pushed to.
RECURSIVE NsOfAttrs(_, _, _)
NsOfAttrs(attrs, acc, inclusiveNamespacesPrefixList) ==
    IF attrs = << >> THEN acc
    ELSE LET attr == Head(attrs)
             a1 == IF attr.prefix # NoPrefix
                      /\ ~InScope(acc.scope, attr.localName)
                      /\ InScope(inclusiveNamespacesPrefixList, attr.localName)
                   THEN [list |-> Append(acc.list, [prefix |-> attr.localName, namespaceURI |-> attr.value]),
                         scope |-> Append(acc.scope, attr.localName)]
                   ELSE acc
             a2 == IF attr.prefix # NoPrefix
                      /\ ~InScope(a1.scope, attr.prefix)
                      /\ attr.prefix # S("xmlns") /\ attr.prefix # S("xml")
                   THEN [list |-> Append(a1.list, [prefix |-> attr.prefix, namespaceURI |-> attr.namespaceURI]),
                         scope |-> Append(a1.scope, attr.prefix)]
                   ELSE a1
         IN  NsOfAttrs(Tail(attrs), a2, inclusiveNamespacesPrefixList)

\* rendered, newDefaultNs, and prefixesInScope as renderNs leaves it.
renderNs(node, prefixesInScope, defaultNs, defaultNsForPrefix, inclusiveNamespacesPrefixList) ==
    LET currNs == node.namespaceURI
        own == node.prefix # NoPrefix /\ ~InScope(prefixesInScope, node.prefix)
        acc0 == IF own
                THEN [list |-> <<[prefix |-> node.prefix,
                                  namespaceURI |-> IF node.namespaceURI # << >> THEN node.namespaceURI
                                                   ELSE Lookup(defaultNsForPrefix, node.prefix)]>>,
                      scope |-> Append(prefixesInScope, node.prefix)]
                ELSE [list |-> << >>, scope |-> prefixesInScope]
        newDefault == node.prefix = NoPrefix /\ defaultNs # currNs
        acc == NsOfAttrs(node.attributes, acc0, inclusiveNamespacesPrefixList)
        nsListToRender == SortNs(acc.list)
    IN  [rendered |->
           (IF newDefault THEN S(" xmlns=\"") \o node.namespaceURI \o S("\"") ELSE << >>)
           \o Concat([i \in 1..Len(nsListToRender) |->
                        S(" xmlns:") \o nsListToRender[i].prefix \o S("=\"")
                        \o nsListToRender[i].namespaceURI \o S("\"")]),
         newDefaultNs |-> IF newDefault THEN node.namespaceURI ELSE defaultNs,
         prefixesInScope |-> acc.scope]

\* What the element branch of processInner reads of a character-data node
\* whose data is empty, where the library gives such a node a childNodes
\* list: no prefix, no names, no attributes, no children.
NamelessElement ==
    [nodeType |-> 1, prefix |-> NoPrefix, localName |-> << >>, namespaceURI |-> << >>,
     attributes |-> << >>, childNodes |-> << >>]

\* processInner with one prefixesInScope array shared by the whole walk: the
\* text, and the array as the walk of node leaves it.
RECURSIVE WalkShared(_, _, _, _, _)
RECURSIVE KidsShared(_, _, _, _, _)
KidsShared(kids, prefixesInScope, defaultNs, defaultNsForPrefix, inclusiveNamespacesPrefixList) ==
    IF kids = << >> THEN [text |-> << >>, prefixesInScope |-> prefixesInScope]
    ELSE LET first == WalkShared(Head(kids), prefixesInScope, defaultNs, defaultNsForPrefix,
                                 inclusiveNamespacesPrefixList)
             rest == KidsShared(Tail(kids), first.prefixesInScope, defaultNs, defaultNsForPrefix,
                                inclusiveNamespacesPrefixList)
         IN  [text |-> first.text \o rest.text, prefixesInScope |-> rest.prefixesInScope]

WalkShared(node, prefixesInScope, defaultNs, defaultNsForPrefix, inclusiveNamespacesPrefixList) ==
    IF node.nodeType # 1 /\ node.data # << >>
    THEN [text |-> encodeSpecialCharactersInText(node.data), prefixesInScope |-> prefixesInScope]
    ELSE LET el == IF node.nodeType = 1 THEN node ELSE NamelessElement
             ns == renderNs(el, prefixesInScope, defaultNs, defaultNsForPrefix,
                            inclusiveNamespacesPrefixList)
             tagName == QName(el.prefix, el.localName)
             kids == KidsShared(el.childNodes, ns.prefixesInScope, ns.newDefaultNs,
                                defaultNsForPrefix, inclusiveNamespacesPrefixList)
         IN  [text |-> S("<") \o tagName \o ns.rendered \o renderAttrs(el) \o S(">")
                       \o kids.text \o S("</") \o tagName \o S(">"),
              prefixesInScope |-> kids.prefixesInScope]

\* processInner without pfxCopy: every child is handed prefixesInScope itself.
processInner_SharedScope(node, prefixesInScope, defaultNs, defaultNsForPrefix, inclusiveNamespacesPrefixList) ==
    WalkShared(node, prefixesInScope, defaultNs, defaultNsForPrefix,
               inclusiveNamespacesPrefixList).text

\* if (node.data) is taken by every node that has data, text or not.
RECURSIVE processInner(_, _, _, _, _)
processInner(node, prefixesInScope, defaultNs, defaultNsForPrefix, inclusiveNamespacesPrefixList) ==
    IF node.nodeType # 1 /\ node.data # << >> THEN encodeSpecialCharactersInText(node.data)
    ELSE LET el == IF node.nodeType = 1 THEN node ELSE NamelessElement
             ns == renderNs(el, prefixesInScope, defaultNs, defaultNsForPrefix,
                            inclusiveNamespacesPrefixList)
             tagName == QName(el.prefix, el.localName)
         IN  S("<") \o tagName \o ns.rendered \o renderAttrs(el) \o S(">")
             \o Concat([i \in 1..Len(el.childNodes) |->
                          processInner(el.childNodes[i], ns.prefixesInScope, ns.newDefaultNs,
                                       defaultNsForPrefix, inclusiveNamespacesPrefixList)])
             \o S("</") \o tagName \o S(">")

\* process(node, options) with options.defaultNsForPrefix alone given.
process(node, defaultNsForPrefix) == processInner(node, << >>, << >>, defaultNsForPrefix, << >>)

\* --------------------------------------------------------------- inputs

\* File data: a Buffer, a string, or nothing (an entry without data).
BufferOf(bytes) == [type |-> "Buffer", bytes |-> bytes]

StringOf(bytes) == [type |-> "string", bytes |-> bytes]

Undefined == [type |-> "undefined", bytes |-> << >>]

File(uri, data) == [uri |-> uri, data |-> data]

\* The entries file lists are drawn from: two package files, an entry
\* without data, and an entry named like the property reference.  The uris
\* hold no character that XML markup gives a meaning to.
Files ==
    { File("config.xml", BufferOf(S("<x/>"))),
      File("index.html", StringOf(S("hello"))),
      File("index.html", Undefined),
      File("#prop", StringOf(S("hello"))) }

RECURSIVE SeqsUpTo(_, _)
SeqsUpTo(set, n) ==
    IF n = 0 THEN {<< >>}
    ELSE LET shorter == SeqsUpTo(set, n - 1)
         IN  shorter \cup {Append(q, x) : q \in shorter, x \in set}

FileLists == SeqsUpTo(Files, MaxFiles)

Roles == {"AuthorSignature", "DistributorSignature"}

\* The ids of the two instances: two signers of one role, or the author's
\* and then the distributor's.
RolePairs ==
    { <<"AuthorSignature", "AuthorSignature">>,
      <<"AuthorSignature", "DistributorSignature">>,
      <<"DistributorSignature", "DistributorSignature">> }

\* Safe bags of a forge.pkcs12 bundle.
CertBag(c) == [type |-> "certBag", cert |-> c, key |-> ""]

ShroudedKeyBag(k) == [type |-> "pkcs8ShroudedKeyBag", cert |-> "", key |-> k]

\* The arguments sign is called with: parsed bundles (safeContents, each a
\* list of safeBags), and a value that is no bundle.
P12Full == [safeContents |-> <<<<CertBag("certA"), ShroudedKeyBag("keyA")>>, <<CertBag("certCA")>>>>]

P12NoKey == [safeContents |-> <<<<CertBag("certA")>>>>]

P12NoCert == [safeContents |-> <<<<ShroudedKeyBag("keyA")>>>>]

P12SmallKey == [safeContents |-> <<<<CertBag("certS")>>, <<ShroudedKeyBag("keyS")>>>>]

NotABundle == [notABundle |-> TRUE]

Keys == {P12Full, P12NoKey, P12NoCert, P12SmallKey, NotABundle}

\* Modulus length in bits of the RSA keys, and octets of the DER
\* certificates.
KeyBits(k) == CASE k = "keyA" -> 2048 [] OTHER -> 512

CertOctets(c) == CASE c = "certA" -> 855 [] c = "certCA" -> 600 [] OTHER -> 400

\* --------------------------------------------------------------- signer

\* hash.update(data) takes a string or a Buffer and throws on anything else.
HashUpdateAccepts(data) == data.type \in {"string", "Buffer"}

TransformsItems ==
    << El(NoPrefix, S("Transforms"), << >>,
          << Txt(<<NL>>),
             El(NoPrefix, S("Transform"),
                <<Attr(NoPrefix, S("Algorithm"), S("http://www.w3.org/2006/12/xml-c14n11"))>>,
                << >>),
             Txt(<<NL>>) >>),
       Txt(<<NL>>) >>

\* createReference(data, uri): throws, or the text of one <Reference>.
createReference(data, uri) ==
    LET throws == IF uri # "#prop" THEN ~HashUpdateAccepts(data)
                  ELSE data.type # "string"
        hashBase64 == IF uri # "#prop"
                      THEN [val |-> Sha512(data.bytes), len |-> Base64Len(512 \div 8)]
                      ELSE [val |-> Utf8(data.bytes), len |-> StrLen(data.bytes)]
    IN  [throws |-> throws,
         xml |-> IF throws THEN << >>
                 ELSE << El(NoPrefix, S("Reference"),
                            <<Attr(NoPrefix, S("URI"), S(uri))>>,
                            <<Txt(<<NL>>)>>
                            \o (IF uri = "#prop" THEN TransformsItems ELSE << >>)
                            \o << El(NoPrefix, S("DigestMethod"),
                                     <<Attr(NoPrefix, S("Algorithm"),
                                            S("http://www.w3.org/2001/04/xmlenc#sha512"))>>,
                                     << >>),
                                  Txt(<<NL>>),
                                  El(NoPrefix, S("DigestValue"), << >>,
                                     <<Txt(Wrap76(hashBase64))>>),
                                  Txt(<<NL>>) >>),
                         Txt(<<NL>>) >>]

\* A Signature as its constructor leaves it; files is a reference to the
\* caller's array.
constructor(id, files) ==
    [id |-> id, files |-> files, references |-> << >>,
     keyInfo |-> [open |-> FALSE, certs |-> << >>, closed |-> FALSE],
     signedInfo |-> << >>, privateKey |-> ""]

\* The loop of _createReferences over the files from entry k on: the
\* references buffer as the loop leaves it, and whether it threw.
RECURSIVE ReferencesLoop(_, _, _)
ReferencesLoop(files, k, references) ==
    IF k > Len(files) THEN [throws |-> FALSE, references |-> references]
    ELSE LET reference == createReference(files[k].data, files[k].uri)
         IN  IF reference.throws THEN [throws |-> TRUE, references |-> references]
             ELSE ReferencesLoop(files, k + 1, references \o reference.xml)

\* _createReferences with the '#prop' reference added before the loop.
_createReferences_PropFirst(this, files) ==
    LET prop == createReference(
                    StringOf(S(IF this.id = "AuthorSignature" THEN authorPropDigest
                               ELSE distributorPropDigest)), "#prop")
        loop == ReferencesLoop(files, 1, this.references \o prop.xml)
    IN  [throws |-> loop.throws, this |-> [this EXCEPT !.references = loop.references]]

_createReferences(this, files) ==
    LET loop == ReferencesLoop(files, 1, this.references)
        prop == createReference(
                    StringOf(S(IF this.id = "AuthorSignature" THEN authorPropDigest
                               ELSE distributorPropDigest)), "#prop")
    IN  IF loop.throws THEN [throws |-> TRUE, this |-> [this EXCEPT !.references = loop.references]]
        ELSE [throws |-> FALSE,
              this |-> [this EXCEPT !.references = loop.references \o prop.xml]]

\* The safe bags of a bundle in iteration order.
RECURSIVE AllBags(_)
AllBags(safeContents) ==
    IF safeContents = << >> THEN << >>
    ELSE Head(safeContents) \o AllBags(Tail(safeContents))

\* The text between the PEM boundaries with its line breaks removed and a
\* line feed put after every 76 characters.
CertBody(c) == Wrap76([val |-> CertDer(c), len |-> Base64Len(CertOctets(c))])

\* The bag loop putting each certificate in front of those before it.
RECURSIVE BagsLoop_Prepend(_, _)
BagsLoop_Prepend(bags, this) ==
    IF bags = << >> THEN this
    ELSE LET bag == Head(bags)
         IN  BagsLoop_Prepend(Tail(bags),
                      IF bag.type = "certBag"
                      THEN [this EXCEPT !.keyInfo.certs = <<CertBody(bag.cert)>> \o @]
                      ELSE IF bag.type = "pkcs8ShroudedKeyBag"
                           THEN [this EXCEPT !.privateKey = bag.key]
                           ELSE this)

\* The bag loop of _addKeyInfo.
RECURSIVE BagsLoop(_, _)
BagsLoop(bags, this) ==
    IF bags = << >> THEN this
    ELSE LET bag == Head(bags)
         IN  BagsLoop(Tail(bags),
                      IF bag.type = "certBag"
                      THEN [this EXCEPT !.keyInfo.certs = Append(@, CertBody(bag.cert))]
                      ELSE IF bag.type = "pkcs8ShroudedKeyBag"
                           THEN [this EXCEPT !.privateKey = bag.key]
                           ELSE this)

\* key.safeContents of a value that is no bundle throws, after keyInfo was
\* assigned its opening text.
_addKeyInfo(this, key) ==
    LET opened == [this EXCEPT !.keyInfo = [open |-> TRUE, certs |-> << >>, closed |-> FALSE]]
    IN  IF "safeContents" \notin DOMAIN key THEN [throws |-> TRUE, this |-> opened]
        ELSE [throws |-> FALSE,
              this |-> [BagsLoop(AllBags(key.safeContents), opened) EXCEPT !.keyInfo.closed = TRUE]]

\* The text of the keyInfo buffer, once closed.
KeyInfoItems(keyInfo) ==
    << El(NoPrefix, S("KeyInfo"), << >>,
          << Txt(<<NL>>),
             El(NoPrefix, S("X509Data"), << >>,
                Concat([i \in 1..Len(keyInfo.certs) |->
                          << Txt(<<NL>>),
                             El(NoPrefix, S("X509Certificate"), << >>,
                                <<Txt(<<NL>> \o keyInfo.certs[i] \o <<NL>>)>>) >>])
                \o <<Txt(<<NL>>)>>),
             Txt(<<NL>>) >>),
       Txt(<<NL>>) >>

XmlDsig == S("http://www.w3.org/2000/09/xmldsig#")

SignedInfoItems(references) ==
    << El(NoPrefix, S("SignedInfo"), << >>,
          << Txt(<<NL>>),
             El(NoPrefix, S("CanonicalizationMethod"),
                <<Attr(NoPrefix, S("Algorithm"), S("http://www.w3.org/2001/10/xml-exc-c14n#"))>>,
                << >>),
             Txt(<<NL>>),
             El(NoPrefix, S("SignatureMethod"),
                <<Attr(NoPrefix, S("Algorithm"),
                       S("http://www.w3.org/2001/04/xmldsig-more#rsa-sha512"))>>,
                << >>),
             Txt(<<NL>>) >>
          \o references),
       Txt(<<NL>>) >>

\* The first statement as an assignment: the buffer starts anew at every call.
AssembleSignedInfo_Reset(this) ==
    [this EXCEPT !.signedInfo = SignedInfoItems(this.references)]

\* _generateSignature, first statement: this.signedInfo += '<SignedInfo>...'.
AssembleSignedInfo(this) ==
    [this EXCEPT !.signedInfo = @ \o SignedInfoItems(this.references)]

\* The parsed wrapper itself handed to the canonicalizer.
WrapperFirstChild_Root(this) ==
    ParseDocumentElement(El(NoPrefix, S("Signature"),
                            <<Attr(NoPrefix, S("xmlns"), XmlDsig)>>, this.signedInfo))

\* The node handed to the canonicalizer: the first child of the parsed
\* wrapper.
WrapperFirstChild(this) ==
    LET signWrapper == El(NoPrefix, S("Signature"),
                          <<Attr(NoPrefix, S("xmlns"), XmlDsig)>>, this.signedInfo)
    IN  ParseDocumentElement(signWrapper).childNodes[1]

defaultNsForPrefix == <<[prefix |-> S("ds"), uri |-> S("http://www.w3c.org/2000/09/xmldsig#")]>>

Canonicalize(this) == process(WrapperFirstChild(this), defaultNsForPrefix)

\* createSign('RSA-SHA512').update(m).sign(key, 'base64') throws without a
\* key and with a modulus too short for the padded SHA-512 DigestInfo.
RsaSignThrows(key) == key = "" \/ KeyBits(key) \div 8 < (512 \div 8) + 19 + 11

RsaSignBase64(key, m) ==
    [val |-> RsaSha512(key, m), len |-> Base64Len(KeyBits(key) \div 8)]

SignatureValueItems(signedKey) ==
    << El(NoPrefix, S("SignatureValue"), << >>,
          <<Txt(<<NL>> \o Wrap76(signedKey) \o <<NL>>)>>),
       Txt(<<NL>>) >>

\* _generateSignature, last statement.
AppendSignatureValue(this, signedKey) ==
    [this EXCEPT !.signedInfo = @ \o SignatureValueItems(signedKey)]

RoleName(id) == IF id = "AuthorSignature" THEN "author" ELSE "distributor"

ObjectItems(id) ==
    << El(NoPrefix, S("Object"), <<Attr(NoPrefix, S("Id"), S("prop"))>>,
          << El(NoPrefix, S("SignatureProperties"),
                <<Attr(S("xmlns"), S("dsp"), S("http://www.w3.org/2009/xmldsig-properties"))>>,
                << El(NoPrefix, S("SignatureProperty"),
                      <<Attr(NoPrefix, S("Id"), S("profile")),
                        Attr(NoPrefix, S("Target"), S("#") \o S(id))>>,
                      <<El(S("dsp"), S("Profile"),
                           <<Attr(NoPrefix, S("URI"), S("http://www.w3.org/ns/widgets-digsig#profile"))>>,
                           << >>)>>),
                   El(NoPrefix, S("SignatureProperty"),
                      <<Attr(NoPrefix, S("Id"), S("role")),
                        Attr(NoPrefix, S("Target"), S("#") \o S(id))>>,
                      <<El(S("dsp"), S("Role"),
                           <<Attr(NoPrefix, S("URI"),
                                  S("http://www.w3.org/ns/widgets-digsig#role-") \o S(RoleName(id)))>>,
                           << >>)>>),
                   El(NoPrefix, S("SignatureProperty"),
                      <<Attr(NoPrefix, S("Id"), S("identifier")),
                        Attr(NoPrefix, S("Target"), S("#") \o S(id))>>,
                      <<El(S("dsp"), S("Identifier"), << >>, << >>)>>) >>) >>),
       Txt(<<NL>>) >>

_generateSignatureXML(this) ==
    << El(NoPrefix, S("Signature"),
          <<Attr(NoPrefix, S("xmlns"), XmlDsig), Attr(NoPrefix, S("Id"), S(this.id))>>,
          <<Txt(<<NL>>)>> \o this.signedInfo \o KeyInfoItems(this.keyInfo) \o ObjectItems(this.id)),
       Txt(<<NL>>) >>

\* The two file names the other way round.
SignatureUri_Swapped(id) == IF id = "AuthorSignature" THEN "signature1.xml" ELSE "author-signature.xml"

SignatureUri(id) == IF id = "AuthorSignature" THEN "author-signature.xml" ELSE "signature1.xml"

\* The entry put at the end of the array (push for unshift).
Unshift_Push(list, id, xml) == list \o <<File(SignatureUri(id), BufferOf(xml))>>

\* this.files.unshift({uri, data: Buffer.from(xml)})
Unshift(list, id, xml) == <<File(SignatureUri(id), BufferOf(xml))>> \o list

\* ---------------------------------------------------------------- state

Insts == {1, 2}

Lists == {1, 2}

VARIABLES
    lists,   \* the callers' arrays of file entries, by reference
    inst,    \* the Signature instances
    pc,      \* where the sign call of each instance stands
    arg,     \* the key argument of that call
    local,   \* its locals while they live: the key handed to
             \* _generateSignature, C14NResult, the awaited document; and the
             \* call's outcome: the returned array (the reference, and its
             \* length on return) or the failing step
    entry,   \* the array's entries and the instance when the call was made
    calls,   \* sign calls made so far
    docs,    \* the sign calls that returned: instance, role, array, its
             \* length on return, key, whether the instance was fresh
    tree,    \* the XML text handed to the parser and then the canonicalizer
    res,     \* what ExclusiveCanonicalization.process made of it
    cache    \* a certificate cache directory, the archive it is filled from,
             \* and where the download of it stands

vars == <<lists, inst, pc, arg, local, entry, calls, docs, tree, res, cache>>

\* No text has been handed to the canonicalizer.
NoTree == Txt(<< >>)

NotProcessed == [status |-> "none", out |-> << >>]

\* No certificate download has been asked for.
NoCache ==
    [which |-> "tizen", archive |-> << >>, dir |-> FALSE, files |-> {}, pc |-> "Idle",
     i |-> 0, calls |-> 0]

NoLocals ==
    [key |-> "", C14NResult |-> << >>, xml |-> << >>, result |-> 0, length |-> 0,
     failedAt |-> ""]

Init ==
    /\ \E fl \in FileLists : lists = [l \in Lists |-> fl]
    /\ \E r \in RolePairs, l2 \in Lists :
          inst = [i \in Insts |-> IF i = 1 THEN constructor(r[1], 1) ELSE constructor(r[2], l2)]
    /\ pc = [i \in Insts |-> "Idle"]
    /\ arg = [i \in Insts |-> NotABundle]
    /\ local = [i \in Insts |-> NoLocals]
    /\ entry = [i \in Insts |-> [files |-> << >>, this |-> inst[i]]]
    /\ calls = 0
    /\ docs = {}
    /\ tree = NoTree
    /\ res = NotProcessed
    /\ cache = NoCache

InFlight(i) == pc[i] \notin {"Idle", "Emitted", "Failed"}

\* sign(key) is called on instance i.
SignCall(i, key) ==
    /\ ~InFlight(i)
    /\ calls < MaxCalls
    /\ pc' = [pc EXCEPT ![i] = "Empty"]
    /\ arg' = [arg EXCEPT ![i] = key]
    /\ local' = [local EXCEPT ![i] = NoLocals]
    /\ entry' = [entry EXCEPT ![i] = [files |-> lists[inst[i].files], this |-> inst[i]]]
    /\ calls' = calls + 1
    /\ UNCHANGED <<lists, inst, docs, tree, res, cache>>

\* sign with the signature entry put into the array, still empty, before the
\* references are built.
CreateReferences_EarlyUnshift(i) ==
    /\ pc[i] = "Empty"
    /\ LET r == _createReferences(inst[i], lists[inst[i].files])
       IN  /\ inst' = [inst EXCEPT ![i] = r.this]
           /\ pc' = [pc EXCEPT ![i] = IF r.throws THEN "Failed" ELSE "ReferencesBuilt"]
           /\ local' = [local EXCEPT ![i].failedAt = IF r.throws THEN "references" ELSE ""]
    /\ lists' = [lists EXCEPT ![inst[i].files] = Unshift(@, inst[i].id, << >>)]
    /\ UNCHANGED <<arg, entry, calls, docs, tree, res, cache>>

\* await this._createReferences()
CreateReferences(i) ==
    /\ pc[i] = "Empty"
    /\ LET r == _createReferences(inst[i], lists[inst[i].files])
       IN  /\ inst' = [inst EXCEPT ![i] = r.this]
           /\ pc' = [pc EXCEPT ![i] = IF r.throws THEN "Failed" ELSE "ReferencesBuilt"]
           /\ local' = [local EXCEPT ![i].failedAt = IF r.throws THEN "references" ELSE ""]
    /\ UNCHANGED <<lists, arg, entry, calls, docs, tree, res, cache>>

\* await this._addKeyInfo(key)
AddKeyInfo(i) ==
    /\ pc[i] = "ReferencesBuilt"
    /\ LET r == _addKeyInfo(inst[i], arg[i])
       IN  /\ inst' = [inst EXCEPT ![i] = r.this]
           /\ pc' = [pc EXCEPT ![i] = IF r.throws THEN "Failed" ELSE "KeyInfoBuilt"]
           /\ local' = [local EXCEPT ![i].failedAt = IF r.throws THEN "keyInfo" ELSE ""]
    /\ UNCHANGED <<lists, arg, entry, calls, docs, tree, res, cache>>

\* this._generateSignature(this.privateKey), up to the assembled SignedInfo
GenerateSignatureAssemble(i) ==
    /\ pc[i] = "KeyInfoBuilt"
    /\ inst' = [inst EXCEPT ![i] = AssembleSignedInfo(inst[i])]
    /\ local' = [local EXCEPT ![i].key = inst[i].privateKey]
    /\ pc' = [pc EXCEPT ![i] = "SignedInfoAssembled"]
    /\ UNCHANGED <<lists, arg, entry, calls, docs, tree, res, cache>>

\* ... the parse of the wrapper and C14N.process
GenerateSignatureCanonicalize(i) ==
    /\ pc[i] = "SignedInfoAssembled"
    /\ local' = [local EXCEPT ![i].C14NResult = Canonicalize(inst[i])]
    /\ pc' = [pc EXCEPT ![i] = "Canonicalized"]
    /\ UNCHANGED <<lists, inst, arg, entry, calls, docs, tree, res, cache>>

\* The signing with a signature salted anew at every call, as a randomized
\* padding would make it.
GenerateSignatureSign_Salted(i) ==
    /\ pc[i] = "Canonicalized"
    /\ IF RsaSignThrows(local[i].key)
       THEN /\ pc' = [pc EXCEPT ![i] = "Failed"]
            /\ local' = [local EXCEPT ![i].failedAt = "sign"]
            /\ UNCHANGED inst
       ELSE /\ pc' = [pc EXCEPT ![i] = "Signed"]
            /\ inst' = [inst EXCEPT ![i] =
                          AppendSignatureValue(inst[i],
                              RsaSignBase64(local[i].key,
                                            local[i].C14NResult \o S(ToString(calls))))]
            /\ local' = [local EXCEPT ![i].C14NResult = << >>, ![i].key = ""]
    /\ UNCHANGED <<lists, arg, entry, calls, docs, tree, res, cache>>

\* ... createSign(...).sign(key) and this.signedInfo += '<SignatureValue>...'
GenerateSignatureSign(i) ==
    /\ pc[i] = "Canonicalized"
    /\ IF RsaSignThrows(local[i].key)
       THEN /\ pc' = [pc EXCEPT ![i] = "Failed"]
            /\ local' = [local EXCEPT ![i].failedAt = "sign"]
            /\ UNCHANGED inst
       ELSE /\ pc' = [pc EXCEPT ![i] = "Signed"]
            /\ inst' = [inst EXCEPT ![i] =
                          AppendSignatureValue(inst[i], RsaSignBase64(local[i].key, local[i].C14NResult))]
            /\ local' = [local EXCEPT ![i].C14NResult = << >>, ![i].key = ""]
    /\ UNCHANGED <<lists, arg, entry, calls, docs, tree, res, cache>>

\* await this._generateSignatureXML(), inside the argument of unshift
GenerateSignatureXML(i) ==
    /\ pc[i] = "Signed"
    /\ local' = [local EXCEPT ![i].xml = _generateSignatureXML(inst[i])]
    /\ pc' = [pc EXCEPT ![i] = "Serialized"]
    /\ UNCHANGED <<lists, inst, arg, entry, calls, docs, tree, res, cache>>

\* this.files.unshift({...}); return this.files
Emit(i) ==
    /\ pc[i] = "Serialized"
    /\ lists' = [lists EXCEPT ![inst[i].files] = Unshift(@, inst[i].id, local[i].xml)]
    /\ local' = [local EXCEPT ![i].result = inst[i].files,
                              ![i].length = Len(lists'[inst[i].files]),
                              ![i].xml = << >>]
    /\ pc' = [pc EXCEPT ![i] = "Emitted"]
    /\ docs' = docs \cup {[n |-> calls, inst |-> i, role |-> inst[i].id, list |-> inst[i].files,
                           length |-> Len(lists'[inst[i].files]), key |-> arg[i],
                           fresh |-> entry[i].this = constructor(inst[i].id, inst[i].files)]}
    /\ UNCHANGED <<inst, arg, entry, calls, tree, res, cache>>

\* Each sign call is awaited before the next one is made.
Next ==
    \/ \E i \in Insts, key \in Keys : (\A j \in Insts : ~InFlight(j)) /\ SignCall(i, key)
    \/ \E i \in Insts : CreateReferences(i)
    \/ \E i \in Insts : AddKeyInfo(i)
    \/ \E i \in Insts : GenerateSignatureAssemble(i)
    \/ \E i \in Insts : GenerateSignatureCanonicalize(i)
    \/ \E i \in Insts : GenerateSignatureSign(i)
    \/ \E i \in Insts : GenerateSignatureXML(i)
    \/ \E i \in Insts : Emit(i)

Spec == Init /\ [][Next]_vars

\* ------------------------------------------------- reading a document

\* The element children of a DOM node named name.
ChildElements(node, name) ==
    LET Named(n) == n.nodeType = 1 /\ n.localName = S(name)
    IN  SelectSeq(node.childNodes, Named)

\* The value of the attribute named name.
AttributeValue(node, name) ==
    LET Named(a) == a.localName = S(name)
    IN  SelectSeq(node.attributes, Named)[1].value

\* The character data of an element's text children.
TextContent(node) ==
    LET IsText(n) == n.nodeType = 3
        texts == SelectSeq(node.childNodes, IsText)
    IN  Concat([k \in 1..Len(texts) |-> texts[k].data])

\* A string with its line feeds removed, pieces of one value that follow
\* each other joined.
RECURSIVE Unwrapped(_)
Unwrapped(str) ==
    IF str = << >> THEN << >>
    ELSE IF Head(str) = NL THEN Unwrapped(Tail(str))
    ELSE LET rest == Unwrapped(Tail(str))
             h == Head(str)
         IN  IF rest # << >> /\ "of" \in DOMAIN h /\ "of" \in DOMAIN Head(rest)
                /\ h.of = Head(rest).of /\ h.to + 1 = Head(rest).from
             THEN <<Sub(h.of, h.from, Head(rest).to)>> \o Tail(rest)
             ELSE <<h>> \o rest

\* The whole text of a value of n characters.
Whole(v, n) == <<Sub(v, 1, n)>>

\* The call of instance i started on an instance as its constructor left it.
Fresh(i) == entry[i].this = constructor(inst[i].id, inst[i].files)

\* The array as the call of instance i returned it: entries are only ever
\* put in front, so it is the array's last local[i].length entries.
Returned(i) ==
    LET list == lists[local[i].result]
    IN  SubSeq(list, Len(list) - local[i].length + 1, Len(list))

\* The text of the document the call of instance i emitted: the data of the
\* entry it put first.
EmittedText(i) == Returned(i)[1].data.bytes

\* That document, parsed.
EmittedDocument(i) == ParseDocumentElement(EmittedText(i)[1])

\* The URIs of the <Reference> children of a <SignedInfo> node.
ReferenceUris(signedInfo) ==
    LET refs == ChildElements(signedInfo, "Reference")
    IN  [k \in 1..Len(refs) |-> AttributeValue(refs[k], "URI")]

\* ---------------------------------------------------------------- claims

\* C1: after sign on a freshly constructed Signature over files f1..fn, the
\* <Reference> elements of the one <SignedInfo> of the emitted document carry
\* the URIs f1.uri, ..., fn.uri in input order followed by one '#prop': n+1
\* references, none dropped, duplicated or reordered.
C1_ReferencesFollowFiles ==
    \A i \in Insts :
        (pc[i] = "Emitted" /\ Fresh(i)) =>
            LET signedInfos == ChildElements(EmittedDocument(i), "SignedInfo")
                n == Len(entry[i].files)
            IN  /\ Len(signedInfos) = 1
                /\ ReferenceUris(signedInfos[1]) =
                      [k \in 1..(n + 1) |-> IF k <= n THEN S(entry[i].files[k].uri) ELSE S("#prop")]

\* C1 witness: a fresh instance has signed a list of two different files.
C1_Witness ==
    \E i \in Insts :
        /\ pc[i] = "Emitted" /\ Fresh(i)
        /\ Len(entry[i].files) = 2
        /\ entry[i].files[1].uri # entry[i].files[2].uri

\* C2: on success sign returns a list of length |files|+1 whose first entry
\* is the signature file ('author-signature.xml' for AuthorSignature,
\* 'signature1.xml' for DistributorSignature) and whose remaining entries are
\* the input entries, unchanged in uri, data and order.
C2_SignatureFilePrepended ==
    \A i \in Insts :
        pc[i] = "Emitted" =>
            /\ Len(Returned(i)) = Len(entry[i].files) + 1
            /\ inst[i].id = "AuthorSignature" => Returned(i)[1].uri = "author-signature.xml"
            /\ inst[i].id = "DistributorSignature" => Returned(i)[1].uri = "signature1.xml"
            /\ Returned(i)[1].data = BufferOf(_generateSignatureXML(inst[i]))
            /\ Tail(Returned(i)) = entry[i].files

\* C2 witness: a sign call over two entries has returned.
C2_Witness == \E i \in Insts : pc[i] = "Emitted" /\ Len(entry[i].files) = 2

IsElement(n, name) == n.nodeType = 1 /\ n.localName = S(name)

\* The private key a bundle holds: that of its last shrouded key bag, "" when
\* it has none.
ExtractedKey(key) ==
    LET IsKeyBag(b) == b.type = "pkcs8ShroudedKeyBag"
        bags == IF "safeContents" \in DOMAIN key
                THEN SelectSeq(AllBags(key.safeContents), IsKeyBag) ELSE << >>
    IN  IF bags = << >> THEN "" ELSE bags[Len(bags)].key

\* Every <SignatureValue> of the document emitted by instance i (and there is
\* one) is the RSA-SHA512 signature, under the key of the call's bundle, of
\* the canonical form of the <SignedInfo> it follows.
SignatureValuesVerify(i) ==
    LET kids == EmittedDocument(i).childNodes
        key == ExtractedKey(arg[i])
    IN  /\ \E k \in DOMAIN kids : IsElement(kids[k], "SignatureValue")
        /\ \A k \in DOMAIN kids :
              IsElement(kids[k], "SignatureValue") =>
                  /\ key # ""
                  /\ \E j \in 1..(k - 1) :
                        /\ IsElement(kids[j], "SignedInfo")
                        /\ \A m \in (j + 1)..(k - 1) : ~IsElement(kids[m], "SignedInfo")
                        /\ Unwrapped(TextContent(kids[k])) =
                              Whole(RsaSha512(key, process(kids[j], defaultNsForPrefix)),
                                    Base64Len(KeyBits(key) \div 8))

\* C3 as stated: after any successful sign call the <SignatureValue> of the
\* emitted document is the RSA-SHA512 signature, under the private key
\* extracted from the bundle, of the Exc-C14N form of the <SignedInfo> of that
\* document.
C3_AnyCallSignatureVerifies ==
    \A i \in Insts : pc[i] = "Emitted" => SignatureValuesVerify(i)

\* C3 amended: after a successful sign call on a freshly constructed
\* Signature, the emitted document has one <SignedInfo> and one
\* <SignatureValue>, and the latter is the RSA-SHA512 signature, under the
\* private key extracted from the bundle, of the Exc-C14N form of the former.
C3_FreshCallSignatureVerifies ==
    \A i \in Insts :
        (pc[i] = "Emitted" /\ Fresh(i)) =>
            /\ Len(ChildElements(EmittedDocument(i), "SignedInfo")) = 1
            /\ Len(ChildElements(EmittedDocument(i), "SignatureValue")) = 1
            /\ SignatureValuesVerify(i)

\* C3 witness: a fresh instance has signed a list that holds a file.
C3_Witness ==
    \E i \in Insts : pc[i] = "Emitted" /\ Fresh(i) /\ Len(entry[i].files) > 0

\* C4 as stated: for every file entry handed to the signer, whatever its uri,
\* the <DigestValue> of its <Reference> with the line wraps removed is
\* Base64(SHA-512(data)).
C4_DigestOfEveryFile ==
    \A i \in Insts :
        (pc[i] = "Emitted" /\ Fresh(i)) =>
            LET refs == ChildElements(ChildElements(EmittedDocument(i), "SignedInfo")[1], "Reference")
            IN  \A k \in 1..Len(entry[i].files) :
                    Unwrapped(TextContent(ChildElements(refs[k], "DigestValue")[1])) =
                        Whole(Sha512(entry[i].files[k].data.bytes), Base64Len(512 \div 8))

\* The element items named name of a text buffer.
ItemsNamed(items, name) ==
    LET Named(x) == x.kind = "el" /\ x.local = S(name)
    IN  SelectSeq(items, Named)

\* What a call has added to a buffer that is only appended to.
Added(now, before) == SubSeq(now, Len(before) + 1, Len(now))

\* The steps of one sign operation in the order of section 4.4; the point
\* where the document's text is awaited lies within Signed.
StageOf(p) == IF p = "Serialized" THEN "Signed" ELSE p

StageOrder ==
    { <<"Empty", "ReferencesBuilt">>, <<"ReferencesBuilt", "KeyInfoBuilt">>,
      <<"KeyInfoBuilt", "SignedInfoAssembled">>, <<"SignedInfoAssembled", "Canonicalized">>,
      <<"Canonicalized", "Signed">>, <<"Signed", "Emitted">> }

AtOrAfterAssembly == {"SignedInfoAssembled", "Canonicalized", "Signed", "Serialized", "Emitted"}

BeforeSigned == {"Empty", "ReferencesBuilt", "KeyInfoBuilt", "SignedInfoAssembled", "Canonicalized"}

\* C5, the states: from the assembly of SignedInfo on, the references buffer
\* holds a reference for every file and '#prop', and the SignedInfo the call
\* assembled holds them all; the canonical form holds no SignatureValue, no
\* SignatureValue is appended before the signature is computed, and the key
\* handed to the signing is the one the KeyInfo step took from the bundle.
C5_StageStates ==
    \A i \in Insts :
        /\ pc[i] \in AtOrAfterAssembly =>
              LET mine == Added(inst[i].references, entry[i].this.references)
                  assembled == ItemsNamed(Added(inst[i].signedInfo, entry[i].this.signedInfo),
                                          "SignedInfo")
              IN  /\ Len(ItemsNamed(mine, "Reference")) = Len(entry[i].files) + 1
                  /\ Len(assembled) = 1
                  /\ ItemsNamed(assembled[1].body, "Reference")
                        = ItemsNamed(inst[i].references, "Reference")
        /\ pc[i] \in BeforeSigned =>
              ItemsNamed(inst[i].signedInfo, "SignatureValue")
                  = ItemsNamed(entry[i].this.signedInfo, "SignatureValue")
        /\ pc[i] = "Canonicalized" =>
              /\ local[i].C14NResult # << >>
              /\ \A k \in DOMAIN local[i].C14NResult :
                    ~IsCh(local[i].C14NResult[k], "SignatureValue")
              /\ local[i].key = ExtractedKey(arg[i])

\* C5, the steps: a call moves from one stage to the next one only (or
\* fails), and the step to Signed appends the signature, under the key the
\* KeyInfo step took from the bundle, of the canonical form computed in the
\* step before.
C5_StageSteps ==
    \A i \in Insts :
        /\ StageOf(pc'[i]) # StageOf(pc[i]) =>
              \/ <<StageOf(pc[i]), StageOf(pc'[i])>> \in StageOrder
              \/ pc'[i] = "Failed" /\ InFlight(i)
              \/ pc'[i] = "Empty" /\ ~InFlight(i)
        /\ (pc[i] = "Canonicalized" /\ pc'[i] = "Signed") =>
              LET new == ItemsNamed(Added(inst'[i].signedInfo, inst[i].signedInfo), "SignatureValue")
              IN  /\ Len(new) = 1
                  /\ Unwrapped(new[1].body[1].data) =
                        Whole(RsaSha512(ExtractedKey(arg[i]), local[i].C14NResult),
                              Base64Len(KeyBits(ExtractedKey(arg[i])) \div 8))

\* C5: within one sign operation the steps happen in the order Empty,
\* ReferencesBuilt, KeyInfoBuilt, SignedInfoAssembled, Canonicalized, Signed,
\* Emitted with none skipped: the references are complete before SignedInfo
\* is assembled, the canonical form is computed over a SignedInfo that holds
\* no SignatureValue, the signature is computed over that canonical form with
\* the key extracted in the KeyInfo step, and SignatureValue is appended only
\* then.
C5_StepsInOrder == [][C5_StageStates' /\ C5_StageSteps]_vars

\* C6 as stated: in every sign call the uri of the signature file the call
\* prepends is not the URI of any <Reference> the call computed, and the
\* signature entry enters the file list only after the signature value has
\* been computed.
C6_SignatureFileNotReferenced ==
    \A i \in Insts :
        /\ pc[i] \notin {"Idle", "Empty"} =>
              LET mine == ItemsNamed(Added(inst[i].references, entry[i].this.references),
                                     "Reference")
              IN  \A k \in DOMAIN mine :
                      mine[k].attrs[1].value # S(SignatureUri(inst[i].id))
        /\ InFlight(i) => lists[inst[i].files] = entry[i].files

\* C7, the states: while a call is under way the caller's list is as it was
\* handed in.
C7_ListUntouchedInFlight ==
    \A i \in Insts : InFlight(i) => lists[inst[i].files] = entry[i].files

\* C7, the steps: the step in which a call fails changes no list.
C7_FailingStepKeepsLists ==
    \A i \in Insts : (pc'[i] = "Failed" /\ pc[i] # "Failed") => lists' = lists

\* C7: when sign fails at any step, the file list the caller handed in is
\* unchanged: same entries, same order, no signature entry prepended.
C7_FailureKeepsFileList == [][C7_ListUntouchedInFlight' /\ C7_FailingStepKeepsLists]_vars

\* C7 witness: a call over a list that holds files has failed in the RSA
\* signing.
C7_Witness ==
    \E i \in Insts :
        pc[i] = "Failed" /\ local[i].failedAt = "sign" /\ Len(entry[i].files) > 0

HasBag(key, type) ==
    /\ "safeContents" \in DOMAIN key
    /\ \E k \in DOMAIN AllBags(key.safeContents) : AllBags(key.safeContents)[k].type = type

\* C8 as stated: sign ends in an error, and returns no signed file list,
\* whenever the bundle has no private-key bag or has no certificate bag.
C8_NoKeyOrNoCertFails ==
    \A i \in Insts :
        pc[i] = "Emitted" =>
            HasBag(arg[i], "pkcs8ShroudedKeyBag") /\ HasBag(arg[i], "certBag")

\* C9 as stated: when sign fails at any step, the instance's references,
\* keyInfo, signedInfo and private-key buffers are as they were before the
\* call.
C9_FailureKeepsInstance ==
    \A i \in Insts : pc[i] = "Failed" => inst[i] = entry[i].this

\* The document of a returned call, and the entries the call was made over.
DocOf(d) ==
    LET list == lists[d.list]
    IN  list[Len(list) - d.length + 1].data.bytes

FilesOf(d) ==
    LET list == lists[d.list]
    IN  SubSeq(list, Len(list) - d.length + 2, Len(list))

\* C10 as stated: a second sign call made with the same role, the same file
\* list and the same key emits the document of the first call.
C10_RepeatedCallsSameDocument ==
    \A a \in docs, b \in docs :
        (a.role = b.role /\ a.list = b.list /\ a.key = b.key) => DocOf(a) = DocOf(b)

\* C10 amended: sign calls on freshly constructed instances of the same role,
\* made with the same key over file lists that hold the same entries when the
\* call is made, emit the same document.
C10_FreshCallsSameDocument ==
    \A a \in docs, b \in docs :
        (a.fresh /\ b.fresh /\ a.role = b.role /\ a.key = b.key /\ FilesOf(a) = FilesOf(b))
            => DocOf(a) = DocOf(b)

\* C10 witness: two fresh instances of one role have signed equal lists of
\* two files with one key.
C10_Witness ==
    \E a \in docs, b \in docs :
        /\ a.inst # b.inst /\ a.fresh /\ b.fresh
        /\ a.role = b.role /\ a.key = b.key
        /\ FilesOf(a) = FilesOf(b) /\ Len(FilesOf(a)) = 2

\* ------------------------------------------------ calls in flight together

\* Instance i is inside a synchronous stretch of sign: between the call and
\* the first await, or inside _generateSignature.  Nothing else runs until
\* the stretch reaches an await.
MidSync(i) == pc[i] \in {"Empty", "SignedInfoAssembled", "Canonicalized"}

OthersAtAwait(i) == \A j \in Insts \ {i} : ~MidSync(j)

\* sign calls of different instances may be in flight together; they take
\* turns at sign's await points.
NextConc ==
    \/ \E i \in Insts, key \in Keys : OthersAtAwait(i) /\ SignCall(i, key)
    \/ \E i \in Insts : OthersAtAwait(i) /\ CreateReferences(i)
    \/ \E i \in Insts : OthersAtAwait(i) /\ AddKeyInfo(i)
    \/ \E i \in Insts : OthersAtAwait(i) /\ GenerateSignatureAssemble(i)
    \/ \E i \in Insts : OthersAtAwait(i) /\ GenerateSignatureCanonicalize(i)
    \/ \E i \in Insts : OthersAtAwait(i) /\ GenerateSignatureSign(i)
    \/ \E i \in Insts : OthersAtAwait(i) /\ GenerateSignatureXML(i)
    \/ \E i \in Insts : OthersAtAwait(i) /\ Emit(i)

SpecConc == Init /\ [][NextConc]_vars

\* One whole sign call run alone: the instance, the array and whether it
\* threw.
SignAlone(this, files, key) ==
    LET r1 == _createReferences(this, files)
        r2 == _addKeyInfo(r1.this, key)
        a  == AssembleSignedInfo(r2.this)
        signed == AppendSignatureValue(a, RsaSignBase64(a.privateKey, Canonicalize(a)))
    IN  IF r1.throws THEN [throws |-> TRUE, files |-> files]
        ELSE IF r2.throws THEN [throws |-> TRUE, files |-> files]
        ELSE IF RsaSignThrows(a.privateKey) THEN [throws |-> TRUE, files |-> files]
        ELSE [throws |-> FALSE, files |-> Unshift(files, this.id, _generateSignatureXML(signed))]

\* The arrays before any call returned: entries are only ever put in front,
\* one by each call that returned.
InitialLists ==
    [l \in Lists |->
        SubSeq(lists[l], 1 + Cardinality({d \in docs : d.list = l}), Len(lists[l]))]

\* The arrays after the call of instance i and then that of instance j, each
\* run alone.
SerialLists(i, j) ==
    LET first == SignAlone(entry[i].this, InitialLists[inst[i].files], arg[i])
        after == [InitialLists EXCEPT ![inst[i].files] = first.files]
        second == SignAlone(entry[j].this, after[inst[j].files], arg[j])
    IN  [after EXCEPT ![inst[j].files] = second.files]

\* Each instance has been called once and both calls are over.
BothCalledOnceAndOver ==
    /\ calls = 2
    /\ \A i \in Insts : pc[i] \in {"Emitted", "Failed"}

\* C11 as stated: when the sign calls of two different instances are in
\* flight together and take turns at sign's await points, also over one file
\* list, the resulting file lists (and with them the documents, which are
\* their first entries) are those of one of the two serial orders of the two
\* calls.
C11_InterleavingIsSerial ==
    BothCalledOnceAndOver => (lists = SerialLists(1, 2) \/ lists = SerialLists(2, 1))

\* The text of the hard-coded digest of a role.
PropDigestText(id) ==
    Whole(Utf8(S(IF id = "AuthorSignature" THEN authorPropDigest ELSE distributorPropDigest)),
          Base64Len(512 \div 8))

HasTransforms(reference) == ChildElements(reference, "Transforms") # << >>

\* C12 as stated: in the document of a sign call (taken here on a fresh
\* instance), the last <Reference> is the '#prop' one, it is the only
\* <Reference> with a <Transforms> child, and its DigestValue with the line
\* wraps removed is the hard-coded constant of the instance's role, whatever
\* the files and the key are.
C12_PropReferenceLastAndOnly ==
    \A i \in Insts :
        (pc[i] = "Emitted" /\ Fresh(i)) =>
            LET refs == ChildElements(ChildElements(EmittedDocument(i), "SignedInfo")[1],
                                      "Reference")
                last == refs[Len(refs)]
            IN  /\ AttributeValue(last, "URI") = S("#prop")
                /\ HasTransforms(last)
                /\ Unwrapped(TextContent(ChildElements(last, "DigestValue")[1]))
                      = PropDigestText(inst[i].id)
                /\ \A k \in 1..(Len(refs) - 1) : ~HasTransforms(refs[k])

\* The certificates of a bundle's certificate bags in iteration order.
CertsOf(key) ==
    LET IsCertBag(b) == b.type = "certBag"
        bags == SelectSeq(AllBags(key.safeContents), IsCertBag)
    IN  [k \in 1..Len(bags) |-> bags[k].cert]

IsLineFeeds(node) == node.nodeType = 3 /\ \A k \in DOMAIN node.data : node.data[k] = NL

\* C13: the <KeyInfo> of an emitted document holds one <X509Data> whose
\* children, line feeds apart, are one <X509Certificate> per certificate bag
\* of the bundle in bag iteration order across the safe-contents groups, each
\* holding the Base64 text of that bag's certificate and nothing else; nothing
\* of the private-key bag is in it, wherever that bag sits.
C13_KeyInfoFollowsCertBags ==
    \A i \in Insts :
        pc[i] = "Emitted" =>
            LET keyInfos == ChildElements(EmittedDocument(i), "KeyInfo")
                x509Datas == ChildElements(keyInfos[1], "X509Data")
                x509Data == x509Datas[1]
                certs == ChildElements(x509Data, "X509Certificate")
                expected == CertsOf(arg[i])
            IN  /\ Len(keyInfos) = 1 /\ Len(x509Datas) = 1
                /\ \A k \in DOMAIN keyInfos[1].childNodes :
                      LET n == keyInfos[1].childNodes[k]
                      IN  IsElement(n, "X509Data") \/ IsLineFeeds(n)
                /\ \A k \in DOMAIN x509Data.childNodes :
                      LET n == x509Data.childNodes[k]
                      IN  IsElement(n, "X509Certificate") \/ IsLineFeeds(n)
                /\ Len(certs) = Len(expected)
                /\ \A k \in DOMAIN certs :
                      /\ \A m \in DOMAIN certs[k].childNodes : certs[k].childNodes[m].nodeType = 3
                      /\ Unwrapped(TextContent(certs[k]))
                            = Whole(CertDer(expected[k]), Base64Len(CertOctets(expected[k])))

\* C13 witness: a call has emitted under a bundle whose key bag sits between
\* two certificate bags of different safe-contents groups.
C13_Witness == \E i \in Insts : pc[i] = "Emitted" /\ arg[i] = P12Full

\* ------------------------------------------------------ the canonicalizer

\* Longest list of attributes, other than namespace declarations, of an
\* element handed to the canonicalizer.
MaxAttrs == 3

\* Attributes as written: two without a namespace, two whose namespace URI
\* and local name concatenate to the same string ("u:a" + "bc" and
\* "u:ab" + "c"), one of another namespace, and an ordinary attribute whose
\* name begins with xmlns.
AttrPool ==
    { Attr(NoPrefix, S("b"), S("1")),
      Attr(NoPrefix, S("a"), S("2")),
      Attr(S("p"), <<[ch |-> "b"], [ch |-> "c"]>>, S("3")),
      Attr(S("q"), S("c"), S("4")),
      Attr(NoPrefix, <<[ch |-> "xmlns"], [ch |-> "a"]>>, S("5")) }

NsDeclarations ==
    << Attr(S("xmlns"), S("p"), <<[ch |-> "u:"], [ch |-> "a"]>>),
       Attr(S("xmlns"), S("q"), <<[ch |-> "u:"], [ch |-> "a"], [ch |-> "b"]>>) >>

NoRepeat(seq) == \A i, j \in DOMAIN seq : seq[i] = seq[j] => i = j

\* <e xmlns:p="u:a" xmlns:q="u:ab" ...attributes/>
AttrTrees ==
    { El(NoPrefix, S("e"), NsDeclarations \o attrs, << >>) :
        attrs \in {a \in SeqsUpTo(AttrPool, MaxAttrs) : NoRepeat(a)} }

\* Most children of an element handed to the canonicalizer.
MaxKids == 2

\* Content as written: text, a comment, an empty comment, and an element
\* that holds a comment.
KidPool ==
    { Txt(S("t")), Comment(S("c")), Comment(<< >>),
      El(NoPrefix, S("f"), << >>, <<Comment(S("c"))>>) }

\* <e>...content</e>
KidTrees == { El(NoPrefix, S("e"), << >>, body) : body \in SeqsUpTo(KidPool, MaxKids) }

\* Longest attribute value, in characters and references, drawn from the
\* pool.
MaxValueLen == 2

\* Attribute values as written: a letter and the references to the
\* characters the canonical form writes as references.
ValuePool ==
    { [ch |-> c] : c \in {"a", "&amp;", "&lt;", "&quot;", "&#xD;", "&#xA;", "&#x9;"} }

\* v="a &amp; b &#xA; c"
ExampleValue ==
    << [ch |-> "a"], [ch |-> " "], [ch |-> "&amp;"], [ch |-> " "], [ch |-> "b"], [ch |-> " "],
       [ch |-> "&#xA;"], [ch |-> " "], [ch |-> "c"] >>

\* <e v="..."/>
ValueTrees ==
    { El(NoPrefix, S("e"), <<Attr(NoPrefix, S("v"), value)>>, << >>) :
        value \in (SeqsUpTo(ValuePool, MaxValueLen) \ {<< >>}) \cup {ExampleValue} }

\* U+00E9 in an attribute value, in a text node, in an element name, in a
\* namespace URI and in a comment.
UnicodeTrees ==
    { El(NoPrefix, S("e"), <<Attr(NoPrefix, S("v"), <<EAcute>>)>>, << >>),
      El(NoPrefix, S("e"), << >>, <<Txt(<<[ch |-> "t"], EAcute>>)>>),
      El(NoPrefix, <<EAcute>>, << >>, << >>),
      El(S("p"), S("e"), <<Attr(S("xmlns"), S("p"), <<[ch |-> "u:"], EAcute>>)>>, << >>),
      El(NoPrefix, S("e"), << >>, <<Comment(<<EAcute>>)>>) }

\* Elements that use the prefixes p and q in their names and attributes:
\* unprefixed, p: or q:, with or without the attribute q:c, empty or holding
\* a p:b.
ScopeKidPool ==
    { El(prefix, S("a"), attrs, body) :
        prefix \in {NoPrefix, S("p"), S("q")},
        attrs \in {<< >>, <<Attr(S("q"), S("c"), S("4"))>>},
        body \in {<< >>, <<El(S("p"), S("b"), << >>, << >>)>>} }

\* <r xmlns:p="u:a" xmlns:q="u:ab">...elements</r>, and the same under p:r
ScopeTrees ==
    { El(prefix, S("r"), NsDeclarations, body) :
        prefix \in {NoPrefix, S("p")}, body \in SeqsUpTo(ScopeKidPool, MaxKids) }

Trees == AttrTrees \cup KidTrees \cup ValueTrees \cup UnicodeTrees \cup ScopeTrees

\* processInner takes a character-data node without data for an element;
\* where the library leaves the childNodes of such a node null, it throws at
\* node.childNodes.length.
RECURSIVE ProcessThrows(_)
ProcessThrows(node) ==
    IF node.nodeType # 1 THEN node.data = << >>
    ELSE \E k \in DOMAIN node.childNodes : ProcessThrows(node.childNodes[k])

InitC14N ==
    /\ tree \in Trees
    /\ res = NotProcessed
    /\ cache = NoCache
    /\ lists = [l \in Lists |-> << >>]
    /\ inst = [i \in Insts |-> constructor("AuthorSignature", i)]
    /\ pc = [i \in Insts |-> "Idle"]
    /\ arg = [i \in Insts |-> NotABundle]
    /\ local = [i \in Insts |-> NoLocals]
    /\ entry = [i \in Insts |-> [files |-> << >>, this |-> inst[i]]]
    /\ calls = 0
    /\ docs = {}

\* new ExclusiveCanonicalization().process(
\*     new DOMParser().parseFromString(tree).documentElement)
Process ==
    /\ res = NotProcessed
    /\ LET node == ParseDocumentElement(tree)
       IN  \/ res' = [status |-> "done", out |-> process(node, << >>)]
           \/ ProcessThrows(node) /\ res' = [status |-> "thrown", out |-> << >>]
    /\ UNCHANGED <<lists, inst, pc, arg, local, entry, calls, docs, tree, cache>>

NextC14N == Process

SpecC14N == InitC14N /\ [][NextC14N]_vars

\* The attribute lists that hold the same attributes in another order.
Reordered(attrs) ==
    { [k \in DOMAIN attrs |-> attrs[f[k]]] :
        f \in {g \in [DOMAIN attrs -> DOMAIN attrs] : \A i, j \in DOMAIN attrs : g[i] = g[j] => i = j} }

\* C14 as stated: the canonical output of an element is the same for every
\* order in which its attributes are presented.
C14_AttributeOrderIndependent ==
    (res.status = "done" /\ tree \in AttrTrees) =>
        \A attrs \in Reordered(tree.attrs) :
            process(ParseDocumentElement([tree EXCEPT !.attrs = attrs]), << >>) = res.out

\* The XML text without its comments.
RECURSIVE StripComments(_)
StripComments(item) ==
    IF item.kind # "el" THEN item
    ELSE LET IsKept(x) == x.kind # "comment"
             kept == SelectSeq(item.body, IsKept)
         IN  [item EXCEPT !.body = [k \in 1..Len(kept) |-> StripComments(kept[k])]]

RECURSIVE HasComment(_)
HasComment(item) ==
    \/ item.kind = "comment"
    \/ item.kind = "el" /\ \E k \in DOMAIN item.body : HasComment(item.body[k])

\* C15 as stated: canonicalizing a subtree gives what canonicalizing the
\* subtree with its comment nodes removed gives.
C15_CommentsContributeNothing ==
    (res # NotProcessed /\ HasComment(tree)) =>
        res = [status |-> "done", out |-> process(ParseDocumentElement(StripComments(tree)), << >>)]

\* C16 as stated: an attribute value written with references to '&', '<',
\* '"', CR, LF and TAB is emitted as it was written: each of these characters
\* of the parsed value comes out as &amp;, &lt;, &quot;, &#xD;, &#xA;, &#x9;
\* and every other character as itself.
C16_AttributeReferencesPreserved ==
    (res # NotProcessed /\ tree \in ValueTrees) =>
        /\ res.status = "done"
        /\ res.out = S("<") \o S("e") \o S(" ") \o S("v") \o S("=\"")
                     \o tree.attrs[1].value
                     \o S("\"") \o S(">") \o S("</") \o S("e") \o S(">")

\* The characters of an XML text: of its names, attribute values and data.
RECURSIVE ItemChars(_)
ItemChars(item) ==
    IF item.kind # "el" THEN item.data
    ELSE item.prefix \o item.local
         \o Concat([k \in 1..Len(item.attrs) |->
                      item.attrs[k].prefix \o item.attrs[k].local
                      \o DecodeReferences(item.attrs[k].value)])
         \o Concat([k \in 1..Len(item.body) |-> ItemChars(item.body[k])])

IsAscii(str) == \A k \in DOMAIN str : str[k] # EAcute

ElementNames(items) ==
    LET IsEl(x) == x.kind = "el"
        elements == SelectSeq(items, IsEl)
    IN  [k \in 1..Len(elements) |-> elements[k].local]

\* The URI attributes of the Reference items of a text buffer, in order.
BufferUris(items) ==
    LET references == ItemsNamed(items, "Reference")
    IN  [k \in 1..Len(references) |-> references[k].attrs[1].value]

\* Instance i has returned from the second sign call made on it, the first
\* one having returned too.
SecondSignReturned(i) ==
    /\ calls = 2
    /\ pc[i] = "Emitted"
    /\ Cardinality({d \in docs : d.inst = i}) = 2

StartsWith(now, before) ==
    Len(before) <= Len(now) /\ SubSeq(now, 1, Len(before)) = before

\* C18: a second sign on the same instance appends to what the first call
\* left: the references buffer is the first call's references followed by
\* the second call's (one per file of the list at that call, then '#prop'),
\* and the signedInfo buffer is the first call's SignedInfo and
\* SignatureValue followed by the second call's.
C18_SecondCallAppends ==
    \A i \in Insts :
        SecondSignReturned(i) =>
            LET first == entry[i].this
                n == Len(entry[i].files)
            IN  /\ first.references # << >>
                /\ StartsWith(inst[i].references, first.references)
                /\ BufferUris(Added(inst[i].references, first.references)) =
                      [k \in 1..(n + 1) |-> IF k <= n THEN S(entry[i].files[k].uri) ELSE S("#prop")]
                /\ ElementNames(first.signedInfo) = <<S("SignedInfo"), S("SignatureValue")>>
                /\ StartsWith(inst[i].signedInfo, first.signedInfo)
                /\ ElementNames(Added(inst[i].signedInfo, first.signedInfo)) =
                      <<S("SignedInfo"), S("SignatureValue")>>

\* C18 witness: an instance has returned from its second sign call.
C18_Witness == \E i \in Insts : SecondSignReturned(i)

\* Some piece of the text of value v occurs in str.
HoldsTextOf(str, v) == \E k \in DOMAIN str : "of" \in DOMAIN str[k] /\ str[k].of = v

\* The PEM text of a private key, as privateKeyToPem writes it.
PemOf(key) == [fn |-> "pem", key |-> key, msg |-> << >>]

\* The private key occurs neither in the signature document nor in the
\* other entries of the array the call of instance i returned.
KeyNotReturned(i) ==
    LET returned == Returned(i)
        key == PemOf(ExtractedKey(arg[i]))
    IN  /\ ~HoldsTextOf(ItemChars(returned[1].data.bytes[1]), key)
        /\ \A k \in 2..Len(returned) : returned[k] = entry[i].files[k - 1]

\* C19: at the end of a signing operation, successful or failed, the
\* instance no longer holds the private key in its privateKey field, and the
\* key is neither in the returned file list nor in the signature document.
C19_KeyDroppedAtEnd ==
    \A i \in Insts :
        /\ pc[i] \in {"Emitted", "Failed"} => inst[i].privateKey = ""
        /\ pc[i] = "Emitted" => KeyNotReturned(i)

\* The start tags and namespace declarations of a canonical text in document
\* order: "<" for a start tag, the prefix for an xmlns:prefix declaration.
RECURSIVE NsEvents(_)
NsEvents(str) ==
    IF str = << >> THEN << >>
    ELSE IF Head(str) = [ch |-> "<"] THEN <<Head(str)>> \o NsEvents(Tail(str))
    ELSE IF Head(str) = [ch |-> " xmlns:"] THEN <<str[2]>> \o NsEvents(Tail(Tail(str)))
    ELSE NsEvents(Tail(str))

\* The prefixes an element uses: its own and those of its attributes that
\* are no declarations.
UsedPrefixes(item) ==
    (IF item.prefix = NoPrefix THEN {} ELSE {item.prefix})
    \cup { item.attrs[k].prefix : k \in { j \in DOMAIN item.attrs :
                item.attrs[j].prefix \notin {NoPrefix, S("xmlns"), S("xml")} } }

PrefixOrder == <<S("p"), S("q")>>

\* What the claim makes of an element under the prefixes declared on its
\* ancestors: the element declares the prefixes it uses that no ancestor
\* declared, and its children are under those and its own.
RECURSIVE ScopedNsEvents(_, _)
ScopedNsEvents(item, declared) ==
    IF item.kind # "el" THEN << >>
    ELSE LET used == UsedPrefixes(item)
             New(prefix) == prefix \in used \ declared
         IN  S("<") \o Concat(SelectSeq(PrefixOrder, New))
             \o Concat([k \in 1..Len(item.body) |->
                          ScopedNsEvents(item.body[k], declared \cup used)])

\* C20: each child is rendered with its own copy of the in-scope prefixes: a
\* prefix declared on an element is not declared again on its descendants,
\* is not in scope for its later siblings or its parent, and a later sibling
\* that uses the prefix carries its own xmlns:prefix declaration.
C20_ScopePerChild ==
    (res # NotProcessed /\ tree \in ScopeTrees) =>
        /\ res.status = "done"
        /\ NsEvents(res.out) = ScopedNsEvents(tree, {})

\* C20 witness: <r><p:a><p:b/></p:a><p:a/></r> has been canonicalized: p is
\* declared on the first p:a, used under it, and used by its later sibling.
C20_Witness ==
    /\ res.status = "done"
    /\ tree = El(NoPrefix, S("r"), NsDeclarations,
                 << El(S("p"), S("a"), << >>, <<El(S("p"), S("b"), << >>, << >>)>>),
                    El(S("p"), S("a"), << >>, << >>) >>)

\* The build: a new author signer a has signed a list, then a new
\* distributor signer d has signed the same list, the one call right after
\* the other, and both have returned.
BuildReturned(a, d) ==
    /\ inst[a].id = "AuthorSignature" /\ inst[d].id = "DistributorSignature"
    /\ inst[a].files = inst[d].files
    /\ pc[a] = "Emitted" /\ pc[d] = "Emitted"
    /\ Fresh(a) /\ Fresh(d)
    /\ \E da, dd \in docs :
          /\ da.inst = a /\ dd.inst = d
          /\ dd.n = da.n + 1
          /\ dd.n = calls

UrisOf(files) == [k \in 1..Len(files) |-> S(files[k].uri)]

SignedInfoUris(i) == ReferenceUris(ChildElements(EmittedDocument(i), "SignedInfo")[1])

\* C21: when the author signature and then the distributor signature are
\* produced one after the other over the same list, the author's SignedInfo
\* references the original files and '#prop', the distributor's references
\* 'author-signature.xml', the original files and '#prop', and the final
\* list is signature1.xml, author-signature.xml, the original files in order.
C21_AuthorThenDistributor ==
    \A a, d \in Insts :
        BuildReturned(a, d) =>
            LET original == entry[a].files
                final == lists[inst[d].files]
            IN  /\ Len(ChildElements(EmittedDocument(a), "SignedInfo")) = 1
                /\ Len(ChildElements(EmittedDocument(d), "SignedInfo")) = 1
                /\ SignedInfoUris(a) = UrisOf(original) \o <<S("#prop")>>
                /\ SignedInfoUris(d) =
                      <<S("author-signature.xml")>> \o UrisOf(original) \o <<S("#prop")>>
                /\ Len(final) = Len(original) + 2
                /\ final[1].uri = "signature1.xml"
                /\ final[1] = Returned(d)[1]
                /\ final[2].uri = "author-signature.xml"
                /\ final[2] = Returned(a)[1]
                /\ SubSeq(final, 3, Len(final)) = original

\* C21 witness: the build over a list of two different files has returned.
C21_Witness ==
    \E a, d \in Insts :
        /\ BuildReturned(a, d)
        /\ Len(entry[a].files) = 2
        /\ entry[a].files[1].uri # entry[a].files[2].uri

\* ------------------------------------------- certificate cache download

\* Most entries of the downloaded archive.
MaxEntries == 3

\* Most calls of the download.
MaxDownloads == 3

\* An archive entry name: its path segments, the extension of the last one,
\* and whether the name ends in '/'.
Name(segs, ext, slash) == [segs |-> segs, ext |-> ext, slash |-> slash]

\* 'data/tools/certificate-generator/certificates'
CertificatesPath == <<"data", "tools", "certificate-generator", "certificates">>

\* Entries of the certificate generator's archive: the certificates
\* directory, two certificates under it, a file elsewhere.
TizenEntries ==
    { Name(CertificatesPath, "", TRUE),
      Name(CertificatesPath \o <<"author", "ca">>, "cer", FALSE),
      Name(CertificatesPath \o <<"distributor", "ca">>, "cer", FALSE),
      Name(<<"data", "bin", "tool">>, "", FALSE) }

\* Entries of the extension's jar: two certificates, a class, a directory.
VDEntries ==
    { Name(<<"res", "ca", "vd_author">>, "cer", FALSE),
      Name(<<"res", "ca", "vd_distributor">>, "crt", FALSE),
      Name(<<"com", "Main">>, "class", FALSE),
      Name(<<"res">>, "", TRUE) }

\* Object.keys(zip.files)
Archives(which) ==
    { a \in SeqsUpTo(IF which = "tizen" THEN TizenEntries ELSE VDEntries, MaxEntries) :
        NoRepeat(a) }

\* Where part occurs in segs: fileName.includes(part)
Occurrences(segs, part) ==
    { at \in 1..(Len(segs) - Len(part) + 1) : SubSeq(segs, at, at + Len(part) - 1) = part }

\* The test of the loop: the entry is a certificate file.
IsCertificateFile(which, name) ==
    IF which = "tizen"
    THEN Occurrences(name.segs, CertificatesPath) # {} /\ ~name.slash
    ELSE name.ext \in {"crt", "cer"}

\* filePath below the cache directory: the name with the first
\* 'data/tools/certificate-generator/certificates/' removed, or its basename.
FilePath(which, name) ==
    IF which = "tizen"
    THEN LET at == CHOOSE a \in Occurrences(name.segs, CertificatesPath) :
                       \A b \in Occurrences(name.segs, CertificatesPath) : a <= b
         IN  [segs |-> SubSeq(name.segs, 1, at - 1)
                       \o SubSeq(name.segs, at + Len(CertificatesPath), Len(name.segs)),
              ext |-> name.ext]
    ELSE [segs |-> <<name.segs[Len(name.segs)]>>, ext |-> name.ext]

\* writeFileSync(filePath, content): the file is made or replaced.
WriteFileSync(files, filePath, content) ==
    {f \in files : f.path # filePath} \cup {[path |-> filePath, content |-> content]}

InitCache ==
    /\ \E which \in {"tizen", "vd"} :
          \E archive \in Archives(which) :
              cache = [NoCache EXCEPT !.which = which, !.archive = archive]
    /\ tree = NoTree
    /\ res = NotProcessed
    /\ lists = [l \in Lists |-> << >>]
    /\ inst = [i \in Insts |-> constructor("AuthorSignature", i)]
    /\ pc = [i \in Insts |-> "Idle"]
    /\ arg = [i \in Insts |-> NotABundle]
    /\ local = [i \in Insts |-> NoLocals]
    /\ entry = [i \in Insts |-> [files |-> << >>, this |-> inst[i]]]
    /\ calls = 0
    /\ docs = {}

Signer == <<lists, inst, pc, arg, local, entry, calls, docs, tree, res>>

\* _downloadTizenCertificates() or _downloadVDCertificates() is called, the
\* earlier call over.
Download ==
    /\ cache.pc \in {"Idle", "Returned", "Thrown"}
    /\ cache.calls < MaxDownloads
    /\ cache' = [cache EXCEPT !.pc = "Called", !.calls = @ + 1]
    /\ UNCHANGED Signer

\* if (existsSync(join(homedir(), 'share/...'))) return;
ExistsCheck ==
    /\ cache.pc = "Called"
    /\ cache' = [cache EXCEPT !.pc = IF cache.dir THEN "Returned" ELSE "Fetching"]
    /\ UNCHANGED Signer

\* The fetch and JSZip.loadAsync: the archive is there, or the response is
\* not ok and the call throws.
Fetch ==
    /\ cache.pc = "Fetching"
    /\ \/ cache' = [cache EXCEPT !.pc = "Loaded"]
       \/ cache' = [cache EXCEPT !.pc = "Thrown"]
    /\ UNCHANGED Signer

\* mkdirSync(cacheDirectory, { recursive: true })
MakeDirectory ==
    /\ cache.pc = "Loaded"
    /\ cache' = [cache EXCEPT !.dir = TRUE, !.pc = "Writing", !.i = 1]
    /\ UNCHANGED Signer

\* One round of the loop over the entries.
WriteEntry ==
    /\ cache.pc = "Writing"
    /\ cache.i <= Len(cache.archive)
    /\ LET fileName == cache.archive[cache.i]
       IN  cache' = [cache EXCEPT
                       !.i = @ + 1,
                       !.files = IF IsCertificateFile(cache.which, fileName)
                                 THEN WriteFileSync(@, FilePath(cache.which, fileName), fileName)
                                 ELSE @]
    /\ UNCHANGED Signer

\* writeFileSync throws (no space, no permission), or the process is ended,
\* in a round that has a file to write.
WriteFails ==
    /\ cache.pc = "Writing"
    /\ cache.i <= Len(cache.archive)
    /\ IsCertificateFile(cache.which, cache.archive[cache.i])
    /\ cache' = [cache EXCEPT !.pc = "Thrown"]
    /\ UNCHANGED Signer

\* The loop is over and the call returns.
DownloadReturns ==
    /\ cache.pc = "Writing"
    /\ cache.i > Len(cache.archive)
    /\ cache' = [cache EXCEPT !.pc = "Returned"]
    /\ UNCHANGED Signer

NextCache ==
    \/ Download
    \/ ExistsCheck
    \/ Fetch
    \/ MakeDirectory
    \/ WriteEntry
    \/ WriteFails
    \/ DownloadReturns

SpecCache == InitCache /\ [][NextCache]_vars

\* The certificate file of the archive is in the cache directory.
Cached(fileName) ==
    [path |-> FilePath(cache.which, fileName), content |-> fileName] \in cache.files

\* C22: whenever the download returns without error, every certificate file
\* of the archive is in the cache directory, whatever calls came before,
\* one that failed after the directory was made included.
C22_ReturnedMeansCached ==
    cache.pc = "Returned" =>
        \A k \in DOMAIN cache.archive :
            IsCertificateFile(cache.which, cache.archive[k]) => Cached(cache.archive[k])

====
